---- MODULE Spec2Model ----
(***************************************************************************)
(* Model of src/bot.py: a Telegram bot that turns a Google Drive link into *)
(* a Telegram video and appends the outcome to the SQLite table "videos".  *)
(*                                                                         *)
(* Texts (links, error messages, user messages) are sequences of tokens;   *)
(* Python's  a in b  on strings is contiguous-subsequence search.          *)
(* Application.builder().token(..).build() leaves concurrent_updates off   *)
(* and every handler is blocking, so one update is handled to completion   *)
(* before the next is dispatched; handle_link is still modelled step by    *)
(* step, one action per collaborator call, because each call can fail.     *)
(***************************************************************************)
EXTENDS Integers, Sequences, FiniteSets, TLC

\* ---------------------------------------------------------------- bounds

NumUsers == 2
\* A valid link is taken up while the table holds fewer rows than this (one
\* attempt can add two rows).
MaxLedger == 1

\* ------------------------------------------------------- program constants

GET_LINK == 0
END == 0 - 1
\* The user has no conversation: none was started yet.  (After END the
\* ConversationHandler drops the key as well; END is kept as its own value
\* so that an ended conversation can be told from one never started, and
\* Route treats both alike.)
IDLE == 0 - 2

Users == 1 .. NumUsers

\* ------------------------------------------------------------------ texts

HostMarker == <<"drive.google.com">>
TooBigMarker == <<"File", "is", "too", "big">>
TimedOutMarker == <<"Timed", "out">>

\* needle in hay, for Python strings
Contains(hay, needle) ==
    \E i \in 1 .. (Len(hay) - Len(needle) + 1) :
        SubSeq(hay, i, i + Len(needle) - 1) = needle

Digits == <<"0", "1", "2", "3", "4", "5", "6", "7", "8", "9">>

RECURSIVE Str(_)
\* str(user_id)
Str(n) ==
    IF n < 10 THEN Digits[n + 1]
    ELSE Str(n \div 10) \o Digits[(n % 10) + 1]

\* The texts of the messages, without their leading emoji.
GreetingMsg ==
    <<"Hi! I can convert Google Drive video links into Telegram videos.",
      "Send /convertvd to start.">>
PromptMsg == <<"Please send your Google Drive video link">>
WarningMsg ==
    <<"This doesn't look like a valid Google Drive link.",
      "Please check the link and try /convertvd again.">>
DownloadingMsg == <<"Downloading video...">>
UploadingMsg == <<"Uploading to Telegram...">>
CompleteMsg == <<"Upload complete!">>
TooLargeMsg ==
    <<"Error: The video file is too large for me to upload to Telegram (max 2GB).">>
TimeoutMsg ==
    <<"Error: The upload to Telegram timed out.",
      "This can happen with large files or network issues. Please try again.">>
UploadErrorPrefix == <<"An error occurred during upload:">>
UnexpectedPrefix == <<"An unexpected error occurred:">>
CancelledMsg == <<"Operation cancelled.">>
DownloadFailedText ==
    <<"Download", "failed.", "File", "might", "be", "private", "or", "deleted.">>

\* ------------------------------------------------- inputs and environment

CommandWords == {"/start", "/convertvd", "/cancel"}

\* filters.COMMAND: the message starts with a bot command
IsCommand(t) == t # <<>> /\ Head(t) \in CommandWords

\* what a user may type as free text
Links ==
    { <<"https://", "drive.google.com", "/file/d/ABC/view">>,
      <<"https://", "example.com", "/video.mp4">> }

\* messages a TelegramError may carry
TelegramErrorTexts ==
    { <<"File", "is", "too", "big", ":", "2147483648", "bytes">>,
      <<"Timed", "out">>,
      <<"Timed", "out", ":", "File", "is", "too", "big">>,
      <<"Bad", "Request">> }

\* local paths gdown may write to, file ids Telegram may assign
Paths == {"video.mp4"}
FileIds == {"BAAC1"}

NoExc == [type |-> "none", msg |-> <<>>]
TelegramError(t) == [type |-> "TelegramError", msg |-> t]
PlainException(t) == [type |-> "Exception", msg |-> t]
OSErrorExc == [type |-> "OSError", msg |-> <<"No", "such", "file">>]
GdownExc == [type |-> "Exception", msg |-> <<"Cannot", "retrieve", "the", "link">>]
UnboundLocal == [type |-> "UnboundLocalError", msg |-> <<"conn", "referenced", "before", "assignment">>]

\* outcomes of one use of the database file
DbOutcomes == {"ok", "connect_error", "execute_error"}

VARIABLES
    mainState,    \* main(): "init", "polling", or "crashed" (an error left main)
    setupLog,     \* the last setup_database: storage outcome and what it logged
    tableExists,  \* videos.db holds the table videos
    ledger,       \* rows of videos, in id order
    disk,         \* local files that exist
    conv,         \* ConversationHandler's state per user
    handler,      \* the callback the last update was routed to, "none" if none
    cur,          \* the user of the last update
    pc,           \* position inside the running callback, "idle" between updates
    link,         \* update.message.text of the link message
    output_path,  \* handle_link's local, "None" before and without a download
    file_id,      \* sent_video.video.file_id, "None" before the upload returns
    exc,          \* the exception in flight
    out,          \* messages sent or edited by the running/last callback
    calls,        \* rows the running/last callback handed to log_to_db
    dbLog,        \* storage outcome of each of those log_to_db calls
    downloads,    \* gdown.download calls of the running/last callback
    acquired,     \* what gdown.download did: "none", "path", "absent", "raised"
    uploadError,  \* str(e) of the TelegramError reply_video raised, <<>> if none
    uploads,      \* reply_video calls of the running/last callback
    removal,      \* os.remove in the last cleanup: "none", "ok", "failed"
    returned      \* how the last callback ended: "none", "return", "raise"

vars == <<mainState, setupLog, tableExists, ledger, disk, conv, handler, cur, pc, link,
          output_path, file_id, exc, out, calls, dbLog, downloads, acquired,
          uploadError, uploads, removal, returned>>

process == <<mainState, setupLog>>
storage == <<tableExists, ledger>>
locals == <<link, output_path, file_id, exc, out, calls, dbLog, downloads,
            acquired, uploadError, uploads, removal>>

Init ==
    /\ mainState = "init"
    /\ setupLog = [db |-> "none", log |-> "none"]
    /\ tableExists = FALSE
    /\ ledger = <<>>
    /\ disk = {}
    /\ conv = [u \in Users |-> IDLE]
    /\ handler = "none"
    /\ cur = 1
    /\ pc = "idle"
    /\ link = <<>>
    /\ output_path = "None"
    /\ file_id = "None"
    /\ exc = NoExc
    /\ out = <<>>
    /\ calls = <<>>
    /\ dbLog = <<>>
    /\ downloads = 0
    /\ acquired = "none"
    /\ uploadError = <<>>
    /\ uploads = 0
    /\ removal = "none"
    /\ returned = "none"

\* ----------------------------------------------------------------- ledger

Row(user_id, original_link, telegram_file_id, status) ==
    [user_id |-> Str(user_id), original_link |-> original_link,
     telegram_file |-> telegram_file_id, status |-> status]

\* The storage outcome that takes effect: INSERT cannot succeed without the table.
Effective(o, tbl) == IF o = "ok" /\ ~tbl THEN "execute_error" ELSE o

\* INSERT OR REPLACE under a fixed id instead of INSERT with AUTOINCREMENT:
\* the new row takes the place of what the table held.
LogToDbReplace(led, tbl, row, o) ==
    CASE Effective(o, tbl) = "connect_error" -> [ledger |-> led, exc |-> UnboundLocal]
      [] Effective(o, tbl) = "execute_error" -> [ledger |-> led, exc |-> NoExc]
      [] OTHER -> [ledger |-> <<row>>, exc |-> NoExc]

\* log_to_db(row) under storage outcome o: the ledger afterwards and the
\* exception that leaves the function.  A failing sqlite3.connect is caught
\* by  except sqlite3.Error,  and then  finally: if conn:  reads the local
\* conn that was never bound.
LogToDb(led, tbl, row, o) ==
    CASE Effective(o, tbl) = "connect_error" -> [ledger |-> led, exc |-> UnboundLocal]
      [] Effective(o, tbl) = "execute_error" -> [ledger |-> led, exc |-> NoExc]
      [] OTHER -> [ledger |-> Append(led, row), exc |-> NoExc]

\* CREATE TABLE without IF NOT EXISTS: on an existing table the statement
\* fails with "table videos already exists", which is caught and logged.
SetupDatabaseCreateOnly(tbl, o) ==
    CASE o = "connect_error" -> [table |-> tbl, exc |-> UnboundLocal, log |-> "error"]
      [] o = "execute_error" \/ tbl -> [table |-> tbl, exc |-> NoExc, log |-> "error"]
      [] OTHER -> [table |-> TRUE, exc |-> NoExc, log |-> "info"]

\* setup_database() under storage outcome o: whether the table exists
\* afterwards, the exception that leaves the function, and the level of
\* the line it logs (info "initialized successfully", error "Database error").
SetupDatabase(tbl, o) ==
    CASE o = "connect_error" -> [table |-> tbl, exc |-> UnboundLocal, log |-> "error"]
      [] o = "execute_error" -> [table |-> tbl, exc |-> NoExc, log |-> "error"]
      [] OTHER -> [table |-> TRUE, exc |-> NoExc, log |-> "info"]

\* ------------------------------------------------------------------- main

\* main(): setup_database(), build the application, run_polling()
Main ==
    /\ mainState = "init"
    /\ \E o \in DbOutcomes :
        LET r == SetupDatabase(tableExists, o) IN
        /\ tableExists' = r.table
        /\ setupLog' = [db |-> o, log |-> r.log]
        /\ mainState' = IF r.exc = NoExc THEN "polling" ELSE "crashed"
    /\ UNCHANGED <<ledger, disk, conv, handler, cur, pc, locals, returned>>

\* The process is started again (it had crashed, or was stopped between two
\* updates): videos.db and the local files stay, everything in memory is
\* as at the first start.
Restart ==
    /\ mainState \in {"polling", "crashed"}
    /\ pc = "idle"
    /\ mainState' = "init"
    /\ setupLog' = [db |-> "none", log |-> "none"]
    /\ conv' = [u \in Users |-> IDLE]
    /\ handler' = "none"
    /\ cur' = 1
    /\ link' = <<>>
    /\ output_path' = "None"
    /\ file_id' = "None"
    /\ exc' = NoExc
    /\ out' = <<>>
    /\ calls' = <<>>
    /\ dbLog' = <<>>
    /\ downloads' = 0
    /\ acquired' = "none"
    /\ uploadError' = <<>>
    /\ uploads' = 0
    /\ removal' = "none"
    /\ returned' = "none"
    /\ UNCHANGED <<storage, disk, pc>>

\* ---------------------------------------------------------------- routing

\* MessageHandler(filters.TEXT, handle_link) without  & ~filters.COMMAND:
\* in GET_LINK every text, commands included, is a link submission.
RouteNoCommandFilter(st, t) ==
    IF st = GET_LINK
    THEN "handle_link"
    ELSE CASE IsCommand(t) /\ Head(t) = "/convertvd" -> "convert_start"
           [] IsCommand(t) /\ Head(t) = "/start" -> "start_command"
           [] OTHER -> "none"

\* The handler an update is routed to: the ConversationHandler first (state
\* handlers, then fallbacks, when the user is in GET_LINK; entry points when
\* the user has no conversation), then CommandHandler("start").
Route(st, t) ==
    IF st = GET_LINK
    THEN CASE ~IsCommand(t) -> "handle_link"
           [] IsCommand(t) /\ Head(t) = "/cancel" -> "cancel"
           [] IsCommand(t) /\ Head(t) = "/start" -> "start_command"
           [] OTHER -> "none"
    ELSE CASE IsCommand(t) /\ Head(t) = "/convertvd" -> "convert_start"
           [] IsCommand(t) /\ Head(t) = "/start" -> "start_command"
           [] OTHER -> "none"

Texts == Links \cup {<<w>> : w \in CommandWords}

\* Start of the handling of one update: the callback's locals are fresh.
Fresh(u, h, t) ==
    /\ cur' = u
    /\ handler' = h
    /\ link' = t
    /\ output_path' = "None"
    /\ file_id' = "None"
    /\ calls' = <<>>
    /\ dbLog' = <<>>
    /\ downloads' = 0
    /\ acquired' = "none"
    /\ uploadError' = <<>>
    /\ uploads' = 0
    /\ removal' = "none"

Ready == mainState = "polling" /\ pc = "idle"

\* An update no handler accepts.
Unhandled(u, t) ==
    /\ Ready
    /\ Route(conv[u], t) = "none"
    /\ Fresh(u, "none", t)
    /\ out' = <<>>
    /\ exc' = NoExc
    /\ returned' = "none"
    /\ UNCHANGED <<process, storage, disk, conv, pc>>

\* The conversation state kept under one key for all users instead of one
\* key per user: a return value moves every user's conversation.
OneReplyAllUsers(u, msg, next, ok) ==
    /\ out' = IF ok THEN <<msg>> ELSE <<>>
    /\ exc' = IF ok THEN NoExc ELSE TelegramError(TimedOutMarker)
    /\ returned' = IF ok THEN "return" ELSE "raise"
    /\ conv' = IF ok THEN [v \in Users |-> next] ELSE conv

\* A callback that is one reply_text and a return value.
OneReply(u, msg, next, ok) ==
    /\ out' = IF ok THEN <<msg>> ELSE <<>>
    /\ exc' = IF ok THEN NoExc ELSE TelegramError(TimedOutMarker)
    /\ returned' = IF ok THEN "return" ELSE "raise"
    /\ conv' = IF ok THEN [conv EXCEPT ![u] = next] ELSE conv

start_command(u, t) ==
    /\ Ready
    /\ Route(conv[u], t) = "start_command"
    /\ Fresh(u, "start_command", t)
    /\ \E ok \in BOOLEAN : OneReply(u, GreetingMsg, conv[u], ok)
    /\ UNCHANGED <<process, storage, disk, pc>>

convert_start(u, t) ==
    /\ Ready
    /\ Route(conv[u], t) = "convert_start"
    /\ Fresh(u, "convert_start", t)
    /\ \E ok \in BOOLEAN : OneReply(u, PromptMsg, GET_LINK, ok)
    /\ UNCHANGED <<process, storage, disk, pc>>

cancel(u, t) ==
    /\ Ready
    /\ Route(conv[u], t) = "cancel"
    /\ Fresh(u, "cancel", t)
    /\ \E ok \in BOOLEAN : OneReply(u, CancelledMsg, END, ok)
    /\ UNCHANGED <<process, storage, disk, pc>>

\* ------------------------------------------------------------ handle_link

\* The validation left out: every text is taken for a Drive link.
IsValidLinkAlways(l) == TRUE

\* "drive.google.com" in link
IsValidLink(l) == Contains(l, HostMarker)

\* The text the  except TelegramError  branch shows for str(e) = t.
Classify(t) ==
    IF Contains(t, TooBigMarker) THEN TooLargeMsg
    ELSE IF Contains(t, TimedOutMarker) THEN TimeoutMsg
    ELSE UploadErrorPrefix \o t

\* The text the  except Exception  branch shows for str(e) = t.
UnexpectedMsg(t) == UnexpectedPrefix \o t

\* The except clause of the try statement that catches e.
ExceptClause(e) ==
    IF e.type = "TelegramError" THEN "except_telegram" ELSE "except_exception"

\* Lines 108-120: validation and the first reply, both outside the try.
handle_link(u, t) ==
    /\ Ready
    /\ Route(conv[u], t) = "handle_link"
    /\ IsValidLink(t) => Len(ledger) < MaxLedger
    /\ Fresh(u, "handle_link", t)
    /\ \E ok \in BOOLEAN :
        IF ~ok
        THEN /\ out' = <<>>
             /\ exc' = TelegramError(TimedOutMarker)
             /\ returned' = "raise"
             /\ UNCHANGED <<conv, pc>>
        ELSE IF ~IsValidLink(t)
        THEN /\ out' = <<WarningMsg>>
             /\ exc' = NoExc
             /\ returned' = "return"
             /\ conv' = [conv EXCEPT ![u] = END]
             /\ UNCHANGED pc
        ELSE /\ out' = <<DownloadingMsg>>
             /\ exc' = NoExc
             /\ returned' = "none"
             /\ pc' = "download"
             /\ UNCHANGED conv
    /\ UNCHANGED <<process, storage, disk>>

\* Lines 125-129: gdown.download returns a path, returns None, or raises.
Download ==
    /\ pc = "download"
    /\ downloads' = downloads + 1
    /\ \/ \E p \in Paths :
            /\ output_path' = p
            /\ disk' = disk \cup {p}
            /\ pc' = "edit_uploading"
            /\ acquired' = "path"
            /\ UNCHANGED exc
       \/ /\ exc' = PlainException(DownloadFailedText)
          /\ pc' = "except_exception"
          /\ acquired' = "absent"
          /\ UNCHANGED <<output_path, disk>>
       \/ /\ exc' = GdownExc
          /\ pc' = "except_exception"
          /\ acquired' = "raised"
          /\ UNCHANGED <<output_path, disk>>
    /\ UNCHANGED <<process, storage, conv, handler, cur, link, file_id, out,
                   calls, dbLog, uploadError, uploads, removal, returned>>

\* status_msg.edit_text(msg) inside the try: on success go to next, on a
\* TelegramError go to the except clause.
EditInTry(msg, next) ==
    /\ \/ /\ out' = Append(out, msg)
          /\ pc' = next
          /\ UNCHANGED exc
       \/ \E t \in TelegramErrorTexts :
            /\ exc' = TelegramError(t)
            /\ pc' = ExceptClause(TelegramError(t))
            /\ UNCHANGED out
    /\ UNCHANGED <<process, storage, disk, conv, handler, cur, link,
                   output_path, file_id, calls, dbLog, downloads, acquired,
                   uploadError, uploads, removal, returned>>

\* Line 132
EditUploading ==
    /\ pc = "edit_uploading"
    /\ EditInTry(UploadingMsg, "upload")

\* Lines 134-141: open the artifact, reply_video, take the file id.
Upload ==
    /\ pc = "upload"
    /\ \/ /\ exc' = OSErrorExc
          /\ pc' = ExceptClause(OSErrorExc)
          /\ UNCHANGED <<uploads, file_id, uploadError>>
       \/ \E t \in TelegramErrorTexts :
            /\ uploads' = uploads + 1
            /\ uploadError' = t
            /\ exc' = TelegramError(t)
            /\ pc' = ExceptClause(TelegramError(t))
            /\ UNCHANGED file_id
       \/ \E f \in FileIds :
            /\ uploads' = uploads + 1
            /\ file_id' = f
            /\ pc' = "log_done"
            /\ UNCHANGED <<exc, uploadError>>
    /\ UNCHANGED <<process, storage, disk, conv, handler, cur, link,
                   output_path, out, calls, dbLog, downloads, acquired,
                   removal, returned>>

\* A call of log_to_db from handle_link: on return go to next, on an
\* exception go to onError.
CallLogToDb(row, next, onError) ==
    \E o \in DbOutcomes :
        LET r == LogToDb(ledger, tableExists, row, o) IN
        /\ ledger' = r.ledger
        /\ calls' = Append(calls, row)
        /\ dbLog' = Append(dbLog, Effective(o, tableExists))
        /\ exc' = IF r.exc = NoExc THEN exc ELSE r.exc
        /\ pc' = IF r.exc = NoExc THEN next ELSE onError

\* Line 142
LogDone ==
    /\ pc = "log_done"
    /\ CallLogToDb(Row(cur, link, file_id, "done"), "edit_complete",
                   ExceptClause(UnboundLocal))
    /\ UNCHANGED <<process, tableExists, disk, conv, handler, cur, link,
                   output_path, file_id, out, downloads, acquired, uploadError,
                   uploads, removal, returned>>

\* Line 145
EditComplete ==
    /\ pc = "edit_complete"
    /\ EditInTry(CompleteMsg, "finally")

\* status_msg.edit_text(msg) inside an except clause: the exception being
\* handled is done with on success; a TelegramError raised here leaves the
\* try statement through the finally clause; nothing reads its text.
EditInExcept(msg) ==
    /\ \/ /\ out' = Append(out, msg)
          /\ exc' = NoExc
          /\ pc' = "log_error"
       \/ /\ exc' = TelegramError(TimedOutMarker)
          /\ pc' = "finally"
          /\ UNCHANGED out
    /\ UNCHANGED <<process, storage, disk, conv, handler, cur, link,
                   output_path, file_id, calls, dbLog, downloads, acquired,
                   uploadError, uploads, removal, returned>>

\* Lines 150-163
ExceptTelegram ==
    /\ pc = "except_telegram"
    /\ EditInExcept(Classify(exc.msg))

\* Lines 166-169
ExceptException ==
    /\ pc = "except_exception"
    /\ EditInExcept(UnexpectedMsg(exc.msg))

\* Lines 164 and 170
LogError ==
    /\ pc = "log_error"
    /\ CallLogToDb(Row(cur, link, "NULL", "error"), "finally", "finally")
    /\ UNCHANGED <<process, tableExists, disk, conv, handler, cur, link,
                   output_path, file_id, out, downloads, acquired, uploadError,
                   uploads, removal, returned>>

\* The cleanup placed after the try statement instead of in its finally
\* clause: skipped when an exception leaves the try statement.
CleanupRunsAfterTry(e) == e = NoExc

\* The cleanup is a finally clause: it runs whatever exception e is in flight.
CleanupRuns(e) == TRUE

\* Line 174
ShouldRemove(path, d) == path # "None" /\ path \in d

\* Line 176 under outcome rm of os.remove
RemoveFile(d, path, rm) == IF rm = "ok" THEN d \ {path} ELSE d

\* os.remove without its try/except: the OSError replaces what is in flight.
AfterRemovalUncaught(e, rm) == IF rm = "failed" THEN OSErrorExc ELSE e

\* Lines 175-179: the exception in flight after the removal; the OSError of
\* os.remove is caught and logged.
AfterRemoval(e, rm) == e

\* Lines 172-181: the finally clause, then return END or let the exception
\* in flight leave the callback.
Finally ==
    /\ pc = "finally"
    /\ \E rm \in {"ok", "failed"} :
        LET runs == CleanupRuns(exc) /\ ShouldRemove(output_path, disk)
            e == IF runs THEN AfterRemoval(exc, rm) ELSE exc
        IN
        /\ runs \/ rm = "ok"
        /\ removal' = IF runs THEN rm ELSE "none"
        /\ disk' = IF runs THEN RemoveFile(disk, output_path, rm) ELSE disk
        /\ exc' = e
        /\ returned' = IF e = NoExc THEN "return" ELSE "raise"
        /\ conv' = IF e = NoExc THEN [conv EXCEPT ![cur] = END] ELSE conv
    /\ pc' = "idle"
    /\ UNCHANGED <<process, storage, handler, cur, link, output_path,
                   file_id, out, calls, dbLog, downloads, acquired,
                   uploadError, uploads>>

\* ---------------------------------------------------------- specification

Next ==
    \/ Main
    \/ Restart
    \/ \E u \in Users, t \in Texts : Unhandled(u, t)
    \/ \E u \in Users, t \in Texts : start_command(u, t)
    \/ \E u \in Users, t \in Texts : convert_start(u, t)
    \/ \E u \in Users, t \in Texts : cancel(u, t)
    \/ \E u \in Users, t \in Texts : handle_link(u, t)
    \/ Download
    \/ EditUploading
    \/ Upload
    \/ LogDone
    \/ EditComplete
    \/ ExceptTelegram
    \/ ExceptException
    \/ LogError
    \/ Finally

Spec == Init /\ [][Next]_vars

\* ------------------------------------------------------------- properties

\* handle_link has ended, by return or by an exception leaving it
Done == handler = "handle_link" /\ pc = "idle"

\* the text the status message shows (the last message sent or edited)
FinalMsg == IF out = <<>> THEN <<>> ELSE out[Len(out)]

ErrorRow == Row(cur, link, "NULL", "error")
DoneRow == Row(cur, link, file_id, "done")

\* C1: every link message that passes validation hands exactly one record
\* to the ledger by the time handle_link ends, and once a record has been
\* handed over only the cleanup remains: no step that can still change what
\* the user is told runs after it.
C1_OneRecordAfterOutcome ==
    /\ (Done /\ IsValidLink(link)) => Len(calls) = 1
    /\ (handler = "handle_link" /\ calls # <<>>) => pc \in {"finally", "idle"}

\* C2: no error leaves handle_link: whenever it has ended it has returned
\* and the user's conversation is in the terminal state END.
C2_NoErrorEscapes ==
    Done => (returned = "return" /\ exc = NoExc /\ conv[cur] = END)

\* C3: a link without the host marker ends the conversation at once with
\* the warning, hands no record to the ledger and calls neither download
\* nor upload.
C3_InvalidLinkEndsWithWarning ==
    (Done /\ ~IsValidLink(link)) =>
        /\ conv[cur] = END
        /\ returned = "return"
        /\ out = <<WarningMsg>>
        /\ calls = <<>>
        /\ downloads = 0
        /\ uploads = 0

\* C4: when download and upload both succeeded, exactly one record was
\* written, it is "done" with the file id Telegram assigned, and the user
\* is shown the completion confirmation.
C4_SuccessOneDoneRecord ==
    (Done /\ acquired = "path" /\ file_id # "None") =>
        /\ calls = <<DoneRow>>
        /\ DoneRow.telegram_file \in FileIds
        /\ FinalMsg = CompleteMsg

\* C5: when gdown.download returned None, exactly one record was written,
\* it is "error" with a null file reference, reply_video was never called
\* and the final message is the unexpected-error text carrying "Download
\* failed. File might be private or deleted."
C5_AbsentDownloadOneErrorRecord ==
    (Done /\ acquired = "absent") =>
        /\ calls = <<ErrorRow>>
        /\ uploads = 0
        /\ FinalMsg = UnexpectedPrefix \o DownloadFailedText

\* C6: when reply_video raised a TelegramError, the final message is the
\* too-large text if the error text has the oversize marker, else the
\* timeout text if it has the timeout marker, else the upload-error text
\* followed by the raw error text; and one "error" record with a null file
\* reference was written.
C6_PublishFailureClassified ==
    (Done /\ uploadError # <<>>) =>
        /\ FinalMsg =
             IF Contains(uploadError, <<"File", "is", "too", "big">>)
             THEN TooLargeMsg
             ELSE IF Contains(uploadError, <<"Timed", "out">>)
             THEN TimeoutMsg
             ELSE UploadErrorPrefix \o uploadError
        /\ calls = <<ErrorRow>>

\* C7 as stated: whenever the download produced a local path, the file no
\* longer exists once handle_link has ended, on every branch.
C7_ArtifactGoneAlways ==
    (Done /\ output_path # "None") => output_path \notin disk

\* C7 amended: whenever the download produced a local path, once handle_link
\* has ended (by return or by an exception) the file no longer exists unless
\* os.remove itself failed.
C7_ArtifactGoneUnlessRemoveFailed ==
    (Done /\ output_path # "None" /\ removal # "failed") =>
        output_path \notin disk

\* C7 witness: an exception left handle_link and the artifact was removed.
C7_Witness ==
    /\ Done
    /\ output_path # "None"
    /\ returned = "raise"
    /\ removal = "ok"
    /\ output_path \notin disk

\* C8: a failing ledger append is swallowed inside log_to_db: the call
\* returns to the statement after it whatever the storage did, with no
\* exception in flight and the messages shown unchanged.
C8_AppendFailureSwallowed ==
    [][(pc \in {"log_done", "log_error"}) =>
         /\ exc' = exc
         /\ out' = out
         /\ pc' = (IF pc = "log_done" THEN "edit_complete" ELSE "finally")]_vars

\* C9: a failing setup_database is not fatal: main always goes on to build
\* and start the bot.
C9_SetupFailureNotFatal == mainState # "crashed"

\* C10: a failing os.remove in the cleanup is only logged: the step adds no
\* exception to handle_link, leaves the messages shown and the ledger as
\* they were, and handle_link ends as it would have with the file removed
\* (with nothing else in flight: it returns and the conversation is in END).
C10_RemovalFailureOnlyLogged ==
    [][(pc = "finally" /\ removal' = "failed") =>
         /\ exc' = exc
         /\ out' = out
         /\ ledger' = ledger
         /\ calls' = calls
         /\ (exc = NoExc => (returned' = "return" /\ conv'[cur] = END))]_vars

\* C10 witness: os.remove failed, the file is still there, handle_link
\* returned and the conversation ended.
C10_Witness ==
    /\ Done
    /\ removal = "failed"
    /\ output_path \in disk
    /\ returned = "return"
    /\ conv[cur] = END
    /\ calls # <<>>

\* An update is being dispatched by the running bot: the step that handles
\* (or drops) one update, for the user cur' and with the text link'.
Dispatching == Ready /\ mainState' = "polling"

\* C11: /convertvd received in any conversation state (none yet, GET_LINK,
\* ended) puts the user's conversation in GET_LINK and sends the prompt.
C11_ConvertvdAlwaysPrompts ==
    [][(Dispatching /\ link' = <<"/convertvd">>) =>
         /\ conv'[cur'] = GET_LINK
         /\ out' = <<PromptMsg>>]_vars

\* C12: /cancel received in GET_LINK moves the conversation to END with the
\* acknowledgement and changes nothing else: no record, no download, no
\* upload, no file deleted.
C12_CancelEndsAndNothingElse ==
    [][(Dispatching /\ link' = <<"/cancel">> /\ conv[cur'] = GET_LINK) =>
         /\ conv'[cur'] = END
         /\ out' = <<CancelledMsg>>
         /\ ledger' = ledger
         /\ tableExists' = tableExists
         /\ disk' = disk
         /\ calls' = <<>>
         /\ downloads' = 0
         /\ uploads' = 0
         /\ removal' = "none"]_vars

\* C13: a cancel ends only the conversation of the user who sent it (every
\* other user's conversation state is as before), and it never cuts into a
\* handle_link that is running: while a callback is between its steps no
\* update is dispatched, the callback stays handle_link for the same user,
\* and it leaves only through its cleanup step.
C13_CancelOnlyOwnConversation ==
    [][/\ (Dispatching /\ handler' = "cancel") =>
            /\ \A v \in Users \ {cur'} : conv'[v] = conv[v]
            /\ conv'[cur'] \in {conv[cur'], END}
            /\ pc' = "idle"
       /\ (pc # "idle") =>
            /\ handler' = "handle_link"
            /\ cur' = cur
            /\ link' = link
            /\ \A v \in Users \ {cur} : conv'[v] = conv[v]
            /\ (pc' = "idle" => pc = "finally")]_vars

\* C13 witness: a user cancelled and ended their conversation while another
\* user is still waiting to send a link.
C13_Witness ==
    /\ handler = "cancel"
    /\ conv[cur] = END
    /\ out = <<CancelledMsg>>
    /\ \E v \in Users \ {cur} : conv[v] = GET_LINK

\* C14: setup_database is idempotent: called again on a database file that
\* already holds the table (and whatever rows were appended since), it
\* leaves the table in place and the rows as they were, and, the storage
\* working, it neither raises nor logs an error.
C14_SetupIdempotent ==
    [][(mainState = "init" /\ tableExists /\ mainState' # "init") =>
         /\ tableExists'
         /\ ledger' = ledger
         /\ (setupLog'.db = "ok" =>
                (mainState' = "polling" /\ setupLog'.log = "info"))]_vars

\* C14 witness: the bot runs after a second setup_database that found the
\* table and rows of an earlier run.
C14_Witness ==
    /\ mainState = "polling"
    /\ link = <<>>
    /\ setupLog = [db |-> "ok", log |-> "info"]
    /\ tableExists
    /\ Len(ledger) > 0

\* The step of the fixed order that a position of handle_link belongs to:
\* acquire 2, publish 3, record (and the messages around it) 4, cleanup 5.
StepRank(p) ==
    CASE p = "download" -> 2
      [] p \in {"edit_uploading", "upload"} -> 3
      [] p \in {"log_done", "edit_complete", "except_telegram",
                "except_exception", "log_error"} -> 4
      [] p = "finally" -> 5
      [] OTHER -> 6

\* C15: within one conversation the steps occur in the order validate,
\* acquire, publish, record, cleanup: the download starts only for a link
\* that has the host marker, the upload only after the download returned a
\* path, a record is written only once download and upload are behind, no
\* step is followed by an earlier one, and handle_link is left only through
\* the cleanup.
C15_FixedStepOrder ==
    [][/\ (pc' = "download") => (pc = "idle" /\ Contains(link', HostMarker))
       /\ (StepRank(pc') = 3) => (output_path' \in Paths /\ downloads' = 1)
       /\ (Len(calls') > Len(calls)) => (StepRank(pc) = 4 /\ downloads' = 1)
       /\ (pc # "idle") => StepRank(pc') >= StepRank(pc)
       /\ (pc # "idle" /\ pc' = "idle") => pc = "finally"
       /\ (handler' = "handle_link" /\ conv' # conv) =>
            (pc = "finally" \/ ~Contains(link', HostMarker))]_vars

\* C15 witness: an attempt went through download, upload, record and
\* cleanup, and the conversation ended.
C15_Witness ==
    /\ Done
    /\ downloads = 1
    /\ uploads = 1
    /\ calls # <<>>
    /\ removal = "ok"
    /\ conv[cur] = END

\* One of the three texts of the  except TelegramError  branch.
IsUploadFailureMsg(m) ==
    \/ m = TooLargeMsg
    \/ m = TimeoutMsg
    \/ /\ Len(m) >= Len(UploadErrorPrefix)
       /\ SubSeq(m, 1, Len(UploadErrorPrefix)) = UploadErrorPrefix

\* C16: the upload-failure messages (too large, timed out, error occurred
\* during upload) are shown only when reply_video itself raised a
\* TelegramError; a TelegramError of another step is not shown as an
\* upload failure.
C16_UploadMessagesOnlyForUpload ==
    handler = "handle_link" =>
        \A i \in DOMAIN out :
            IsUploadFailureMsg(out[i]) => uploadError # <<>>

IsPrefix(a, b) == Len(a) <= Len(b) /\ SubSeq(b, 1, Len(a)) = a

\* SQL NULL, which is what Python's None is stored as
IsNull(x) == x \in {"NULL", "None"}

\* C17: the ledger is append-only and well-formed: every step leaves the
\* rows it found in place and unchanged, every row has status "done" or
\* "error", and a row's file reference is non-null exactly when its status
\* is "done".
C17_LedgerAppendOnlyWellFormed ==
    [][/\ IsPrefix(ledger, ledger')
       /\ \A i \in DOMAIN ledger' :
            /\ ledger'[i].status \in {"done", "error"}
            /\ (~IsNull(ledger'[i].telegram_file)) <=> (ledger'[i].status = "done")]_vars

\* C17 witness: a row was appended to a table that already held a row, and
\* both kinds of row are there.
C17_Witness ==
    /\ Len(ledger) = 2
    /\ ledger[1].status = "done"
    /\ ledger[1].telegram_file \in FileIds
    /\ ledger[2].status = "error"
    /\ IsNull(ledger[2].telegram_file)

\* C18: no retries: for one link submission gdown.download is called at
\* most once and reply_video at most once, and after any failure (an
\* attempt that did not end with the confirmation) the conversation is in
\* the terminal state.
C18_NoRetriesFailureTerminal ==
    /\ downloads <= 1
    /\ uploads <= 1
    /\ (Done /\ IsValidLink(link) /\ FinalMsg # CompleteMsg) => conv[cur] = END

\* C19: /start, in any conversation state, is handled by start_command,
\* which sends the greeting and nothing else: every user's conversation
\* state is as before (in GET_LINK the command is not taken for a link),
\* no record is written, no file touched, no download or upload called.
C19_StartOnlyGreets ==
    [][(Dispatching /\ link' = <<"/start">>) =>
         /\ handler' = "start_command"
         /\ pc' = "idle"
         /\ conv' = conv
         /\ (returned' = "return" => out' = <<GreetingMsg>>)
         /\ (returned' # "return" => out' = <<>>)
         /\ ledger' = ledger
         /\ tableExists' = tableExists
         /\ disk' = disk
         /\ calls' = <<>>
         /\ downloads' = 0
         /\ uploads' = 0]_vars

\* C19 witness: a user who was asked for the link sent /start, got the
\* greeting, and is still asked for the link.
C19_Witness ==
    /\ handler = "start_command"
    /\ link = <<"/start">>
    /\ out = <<GreetingMsg>>
    /\ conv[cur] = GET_LINK

====
